---- MODULE Spec2Model ----
(***************************************************************************)
(* Model of the SPIDriver client library (crate spidriver) and of its      *)
(* embedded-hal adapter (crate spidriver-hal).                             *)
(*                                                                         *)
(* Every method of SPIDriver is a fixed sequence of Channel calls, each    *)
(* followed by `?` or standing in tail position.  The model keeps that     *)
(* sequence in `eng.calls` and runs it one Channel call per step, so that  *)
(* a transport failure or a WouldBlock can fall between any two calls.     *)
(***************************************************************************)
EXTENDS Integers, Sequences, FiniteSets, TLC

\* ------------------------------------------------------------------ bounds

\* Operations the caller issues in one session.
MaxCalls == 2

\* Longest buffer a caller passes to write / transfer.
MaxLen == 130

\* How often in a row the transport may answer WouldBlock to one call.
MaxPolls == 1

\* ------------------------------------------------------- program constants

\* `if data.len() > 64` in SPIDriver::write and SPIDriver::transfer.
FrameMax == 64

\* `if remain.len() > 64 { 64 }` in Comms::write and Comms::transfer.
ChunkMax == 64

\* `0xc0 - 1 + len` and `0x80 - 1 + len`.
WriteBase == 192
TransferBase == 128

\* b'e', b's', b'u', b'a', b'b', b'x', b'1', b'0'.
ASCII_e == 101
ASCII_s == 115
ASCII_u == 117
ASCII_a == 97
ASCII_b == 98
ASCII_x == 120
ASCII_1 == 49
ASCII_0 == 48

\* ------------------------------------------------------------------ inputs

\* Argument bytes of echo and write_byte.
Bytes == {0, 66, 255}

\* Error values of the transport (the type parameters TXErr and RXErr).
Causes == {"EIO", "ETIMEDOUT"}

\* Buffer lengths passed to Comms::write / Comms::transfer: those around
\* the multiples of the chunk size.
Lens == {n \in 0..MaxLen : n % ChunkMax \in {0, 1, 2, 3, ChunkMax - 1}}

\* Buffer lengths passed to SPIDriver::write / SPIDriver::transfer: every
\* length a frame can have, and the longer ones of Lens.
FrameLens == {n \in 0..MaxLen : n <= FrameMax \/ n \in Lens}

\* A buffer of n bytes; every position differs from its neighbours.
Data(n, seed) == [i \in 1..n |-> (seed + 3 * i) % 256]

DataSeeds == {7, 200}

\* What the device answers: the seeds of the byte stream behind RX.
RxSeeds == {61, 180}

U8(x) == x % 256

\* ------------------------------------------------------------------- state

\* What the caller and the transport may do in one session.
Full ==
    [frameLens |-> FrameLens, lens |-> Lens, seeds |-> DataSeeds,
     bytes |-> Bytes, causes |-> Causes, polls |-> MaxPolls]

\* The same for a session of several operations: few arguments, one
\* multi-chunk length, a transport that fails but never answers WouldBlock.
Short ==
    [frameLens |-> {0, 2, FrameMax + 1}, lens |-> {0, 2, ChunkMax + 1},
     seeds |-> {7}, bytes |-> {66}, causes |-> {"EIO"}, polls |-> 0]

VARIABLES
    pc,        \* "idle", "comms" (head of a chunk loop), "engine", "done", "panic"
    call,      \* the operation the caller issued: [via, op, arg]
    buf,       \* the caller's buffer (`data`), changed in place by transfer
    orig,      \* the buffer as the caller passed it
    hal,       \* the Comms method running inside with_mut_sd: [op, off]
    eng,       \* the SPIDriver method running: [calls, ip, base, len]
    wire,      \* every Channel call that returned, in order: [k, b, res]
    frames,    \* every SPIDriver method called: [op, data, base]
    result,    \* what the operation returned: [tag, cause, val]
    borrowed,  \* the RefCell's borrow flag
    nread,     \* bytes taken from RX so far
    rxSeed,    \* which byte stream RX delivers
    polls,     \* WouldBlock answers to the Channel call in progress
    ncalls     \* operations issued so far

vars == <<pc, call, buf, orig, hal, eng, wire, frames, result, borrowed,
          nread, rxSeed, polls, ncalls>>

\* ------------------------------------------------------------ Error values

NoResult == [tag |-> "None", cause |-> "none", val |-> -1]
Ok(v) == [tag |-> "Ok", cause |-> "none", val |-> v]
Error_Request == [tag |-> "Request", cause |-> "none", val |-> -1]
Error_Protocol == [tag |-> "Protocol", cause |-> "none", val |-> -1]
Panic == [tag |-> "Panic", cause |-> "none", val |-> -1]

\* Error::tx and Error::rx.
\* Error::tx losing the transport's error value.
Error_tx_nocause(got) == [tag |-> "Write", cause |-> "none", val |-> -1]

\* Error::rx reporting a failed read as a protocol error.
Error_rx_protocol(got) == Error_Protocol

Error_tx(got) == [tag |-> "Write", cause |-> got, val |-> -1]
Error_rx(got) == [tag |-> "Read", cause |-> got, val |-> -1]

\* --------------------------------------------------- SPIDriver (the engine)

\* One Channel call of a method body; dst is where a read byte goes:
\* 0 the return value, i > 0 data[i].
ChWrite(c) == [k |-> "write", b |-> c, dst |-> 0]
ChFlush == [k |-> "flush", b |-> -1, dst |-> 0]
ChRead(i) == [k |-> "read", b |-> -1, dst |-> i]

\* A method either returns before any Channel call or runs its calls.
Body(cs) == [early |-> NoResult, calls |-> cs]
Return(r) == [early |-> r, calls |-> <<>>]

\* echo reading its response before it flushes.
echo_flush_late(ch) ==
    Body(<<ChWrite(ASCII_e), ChWrite(ch), ChRead(0), ChFlush>>)

echo(ch) == Body(<<ChWrite(ASCII_e), ChWrite(ch), ChFlush, ChRead(0)>>)

\* select waiting for an acknowledgement byte.
select_acked == Body(<<ChWrite(ASCII_s), ChFlush, ChRead(0)>>)

select == Body(<<ChWrite(ASCII_s), ChFlush>>)

\* unselect returning after its byte, without the flush.
unselect_no_flush == Body(<<ChWrite(ASCII_u)>>)

unselect == Body(<<ChWrite(ASCII_u), ChFlush>>)

set_a(high) ==
    Body(<<ChWrite(ASCII_a),
           IF high THEN ChWrite(ASCII_1) ELSE ChWrite(ASCII_0),
           ChFlush>>)

\* set_b with '1' and '0' exchanged.
set_b_inverted(high) ==
    Body(<<ChWrite(ASCII_b),
           IF high THEN ChWrite(ASCII_0) ELSE ChWrite(ASCII_1),
           ChFlush>>)

set_b(high) ==
    Body(<<ChWrite(ASCII_b),
           IF high THEN ChWrite(ASCII_1) ELSE ChWrite(ASCII_0),
           ChFlush>>)

\* disconnect flushing and waiting for an answer.
disconnect_acked == Body(<<ChWrite(ASCII_x), ChFlush, ChRead(0)>>)

disconnect == Body(<<ChWrite(ASCII_x)>>)

\* write with the control byte computed as 0xc0 + len.
write_ctl_off(data) ==
    IF Len(data) = 0 THEN Return(Ok(-1))
    ELSE IF Len(data) > FrameMax THEN Return(Error_Request)
    ELSE LET len == U8(Len(data)) IN
         Body(<<ChWrite(U8(WriteBase + len))>>
              \o [i \in 1..Len(data) |-> ChWrite(data[i])])

\* write releasing chip-select after the frame.
write_then_unselect(data) ==
    IF Len(data) = 0 THEN Return(Ok(-1))
    ELSE IF Len(data) > FrameMax THEN Return(Error_Request)
    ELSE LET len == U8(Len(data)) IN
         Body(<<ChWrite(U8(WriteBase - 1 + len))>>
              \o [i \in 1..Len(data) |-> ChWrite(data[i])]
              \o <<ChWrite(ASCII_u), ChFlush>>)

write(data) ==
    IF Len(data) = 0 THEN Return(Ok(-1))
    ELSE IF Len(data) > FrameMax THEN Return(Error_Request)
    ELSE LET len == U8(Len(data)) IN
         Body(<<ChWrite(U8(WriteBase - 1 + len))>>
              \o [i \in 1..Len(data) |-> ChWrite(data[i])])

\* transfer whose read loop starts one position late.
transfer_read_late(data) ==
    IF Len(data) = 0 THEN Return(Ok(-1))
    ELSE IF Len(data) > FrameMax THEN Return(Error_Request)
    ELSE LET len == U8(Len(data)) IN
         Body(<<ChWrite(U8(TransferBase - 1 + len))>>
              \o [i \in 1..Len(data) |-> ChWrite(data[i])]
              \o [i \in 1..(Len(data) - 1) |-> ChRead(i + 1)])

\* transfer with the length test `data.len() > 65`.
transfer_limit_off(data) ==
    IF Len(data) = 0 THEN Return(Ok(-1))
    ELSE IF Len(data) > FrameMax + 1 THEN Return(Error_Request)
    ELSE LET len == U8(Len(data)) IN
         Body(<<ChWrite(U8(TransferBase - 1 + len))>>
              \o [i \in 1..Len(data) |-> ChWrite(data[i])]
              \o [i \in 1..Len(data) |-> ChRead(i)])

\* transfer reading each response byte right after writing its payload byte.
transfer_interleaved(data) ==
    IF Len(data) = 0 THEN Return(Ok(-1))
    ELSE IF Len(data) > FrameMax THEN Return(Error_Request)
    ELSE LET len == U8(Len(data)) IN
         Body(<<ChWrite(U8(TransferBase - 1 + len))>>
              \o [j \in 1..(2 * Len(data)) |->
                    IF j % 2 = 1 THEN ChWrite(data[(j + 1) \div 2])
                    ELSE ChRead(j \div 2)])

transfer(data) ==
    IF Len(data) = 0 THEN Return(Ok(-1))
    ELSE IF Len(data) > FrameMax THEN Return(Error_Request)
    ELSE LET len == U8(Len(data)) IN
         Body(<<ChWrite(U8(TransferBase - 1 + len))>>
              \o [i \in 1..Len(data) |-> ChWrite(data[i])]
              \o [i \in 1..Len(data) |-> ChRead(i)])

\* write_byte flushing after its two bytes.
write_byte_flushed(b) == Body(<<ChWrite(192), ChWrite(b), ChFlush>>)

write_byte(b) == Body(<<ChWrite(192), ChWrite(b)>>)

\* ------------------------------------------------------------ the plumbing

NoHal == [op |-> "none", off |-> 0]
NoEng == [calls |-> <<>>, ip |-> 0, base |-> 0, len |-> 0]

Ev(k, b, res) == [k |-> k, b |-> b, res |-> res]

\* The k-th byte RX delivers.
RxByte(k) == (rxSeed + 5 * k) % 256

\* with_mut_sd handing out the SPIDriver without looking at the borrow flag.
with_mut_sd_unchecked(flag) == TRUE

\* SPIDriverHAL::with_mut_sd: borrow_mut succeeds when nothing is borrowed.
with_mut_sd(flag) == ~flag

\* Returned with the chunk loops going on whatever the method returned
\* (`let _ = sd.0.write(this);` for `sd.0.write(this)?;`).
Returned_no_try(h, r, len) ==
    /\ eng' = NoEng
    /\ IF h.op = "none"
       THEN /\ pc' = "done"
            /\ result' = r
            /\ hal' = h
            /\ UNCHANGED borrowed
       ELSE IF h.op \in {"write", "transfer"}
       THEN /\ pc' = "comms"
            /\ hal' = [h EXCEPT !.off = @ + len]
            /\ UNCHANGED <<result, borrowed>>
       ELSE /\ pc' = "done"
            /\ result' = r
            /\ hal' = h
            /\ borrowed' = FALSE

\* The SPIDriver method returned r to its caller: to the user, or to the
\* Comms method h, whose `?` leaves the chunk loop on an error.
Returned(h, r, len) ==
    /\ eng' = NoEng
    /\ IF h.op = "none"
       THEN /\ pc' = "done"
            /\ result' = r
            /\ hal' = h
            /\ UNCHANGED borrowed
       ELSE IF h.op \in {"write", "transfer"} /\ r.tag = "Ok"
       THEN /\ pc' = "comms"
            /\ hal' = [h EXCEPT !.off = @ + len]
            /\ UNCHANGED <<result, borrowed>>
       ELSE /\ pc' = "done"
            /\ result' = r
            /\ hal' = h
            /\ borrowed' = FALSE

\* A call of SPIDriver method f.op, with body `body`, on
\* data[base+1..base+len].
Invoke(h, f, body, base, len) ==
    /\ frames' = Append(frames, f)
    /\ IF body.early = NoResult
       THEN /\ eng' = [calls |-> body.calls, ip |-> 1, base |-> base, len |-> len]
            /\ pc' = "engine"
            /\ hal' = h
            /\ borrowed' = (h.op # "none")
            /\ UNCHANGED result
       ELSE Returned(h, body.early, len)

Frame(op, data, base) == [op |-> op, data |-> data, base |-> base]

Bit(b) == IF b THEN 1 ELSE 0

\* The caller issues operation c on buffer d.
Begin(c, d) ==
    /\ pc = "idle"
    /\ call' = c
    /\ buf' = d
    /\ orig' = d
    /\ ncalls' = ncalls + 1
    /\ UNCHANGED <<wire, nread, rxSeed, polls>>

NoCall == [via |-> "none", op |-> "none", arg |-> 0]

Init ==
    /\ pc = "idle"
    /\ call = NoCall
    /\ buf = <<>>
    /\ orig = <<>>
    /\ hal = NoHal
    /\ eng = NoEng
    /\ wire = <<>>
    /\ frames = <<>>
    /\ result = NoResult
    /\ borrowed = FALSE
    /\ nread = 0
    /\ rxSeed \in RxSeeds
    /\ polls = 0
    /\ ncalls = 0

\* ------------------------------------------------- Channel (one call each)

\* The Channel call the running method is at.
Cur == eng.calls[eng.ip]

\* The call returned Ok: the method goes on, or returns when it was the last.
Step(r) ==
    IF eng.ip = Len(eng.calls)
    THEN Returned(hal, r, eng.len)
    ELSE /\ eng' = [eng EXCEPT !.ip = @ + 1]
         /\ UNCHANGED <<pc, hal, result, borrowed>>

\* nb::block! polls again on WouldBlock; nothing else changes.
WouldBlock(in) ==
    /\ polls < in.polls
    /\ polls' = polls + 1
    /\ UNCHANGED <<pc, hal, eng, result, borrowed, wire, buf, nread>>

\* Channel::write: nb::block!(self.tx.write(c)).map_err(Error::tx)
Channel_write(in) ==
    /\ pc = "engine"
    /\ Cur.k = "write"
    /\ \/ WouldBlock(in)
       \/ /\ wire' = Append(wire, Ev("write", Cur.b, "ok"))
          /\ polls' = 0
          /\ UNCHANGED <<buf, nread>>
          /\ Step(Ok(-1))
       \/ \E e \in in.causes :
            /\ wire' = Append(wire, Ev("write", Cur.b, e))
            /\ polls' = 0
            /\ UNCHANGED <<buf, nread>>
            /\ Returned(hal, Error_tx(e), eng.len)
    /\ UNCHANGED <<call, orig, frames, rxSeed, ncalls>>

\* Channel::flush: nb::block!(self.tx.flush()).map_err(Error::tx)
Channel_flush(in) ==
    /\ pc = "engine"
    /\ Cur.k = "flush"
    /\ \/ WouldBlock(in)
       \/ /\ wire' = Append(wire, Ev("flush", -1, "ok"))
          /\ polls' = 0
          /\ UNCHANGED <<buf, nread>>
          /\ Step(Ok(-1))
       \/ \E e \in in.causes :
            /\ wire' = Append(wire, Ev("flush", -1, e))
            /\ polls' = 0
            /\ UNCHANGED <<buf, nread>>
            /\ Returned(hal, Error_tx(e), eng.len)
    /\ UNCHANGED <<call, orig, frames, rxSeed, ncalls>>

\* Channel::read: nb::block!(self.rx.read()).map_err(Error::rx); the byte
\* is the method's value (echo) or is stored into data[i] (transfer).
Channel_read(in) ==
    /\ pc = "engine"
    /\ Cur.k = "read"
    /\ \/ WouldBlock(in)
       \/ LET b == RxByte(nread + 1) IN
          /\ wire' = Append(wire, Ev("read", b, "ok"))
          /\ polls' = 0
          /\ nread' = nread + 1
          /\ IF Cur.dst = 0
             THEN /\ UNCHANGED buf
                  /\ Step(Ok(b))
             ELSE /\ buf' = [buf EXCEPT ![eng.base + Cur.dst] = b]
                  /\ Step(Ok(-1))
       \/ \E e \in in.causes :
            /\ wire' = Append(wire, Ev("read", -1, e))
            /\ polls' = 0
            /\ UNCHANGED <<buf, nread>>
            /\ Returned(hal, Error_rx(e), eng.len)
    /\ UNCHANGED <<call, orig, frames, rxSeed, ncalls>>

\* ------------------------------------------- calls of the SPIDriver methods

Direct(op, arg) == [via |-> "SPIDriver", op |-> op, arg |-> arg]

SPIDriver_echo(in) ==
    \E ch \in in.bytes :
        /\ Begin(Direct("echo", ch), <<>>)
        /\ Invoke(NoHal, Frame("echo", <<ch>>, 0), echo(ch), 0, 0)

SPIDriver_select ==
    /\ Begin(Direct("select", 0), <<>>)
    /\ Invoke(NoHal, Frame("select", <<>>, 0), select, 0, 0)

SPIDriver_unselect ==
    /\ Begin(Direct("unselect", 0), <<>>)
    /\ Invoke(NoHal, Frame("unselect", <<>>, 0), unselect, 0, 0)

SPIDriver_set_a ==
    \E high \in BOOLEAN :
        /\ Begin(Direct("set_a", Bit(high)), <<>>)
        /\ Invoke(NoHal, Frame("set_a", <<Bit(high)>>, 0), set_a(high), 0, 0)

SPIDriver_set_b ==
    \E high \in BOOLEAN :
        /\ Begin(Direct("set_b", Bit(high)), <<>>)
        /\ Invoke(NoHal, Frame("set_b", <<Bit(high)>>, 0), set_b(high), 0, 0)

SPIDriver_disconnect ==
    /\ Begin(Direct("disconnect", 0), <<>>)
    /\ Invoke(NoHal, Frame("disconnect", <<>>, 0), disconnect, 0, 0)

SPIDriver_write(in) ==
    \E n \in in.frameLens, s \in in.seeds :
        /\ Begin(Direct("write", n), Data(n, s))
        /\ Invoke(NoHal, Frame("write", Data(n, s), 0), write(Data(n, s)), 0, n)

SPIDriver_transfer(in) ==
    \E n \in in.frameLens, s \in in.seeds :
        /\ Begin(Direct("transfer", n), Data(n, s))
        /\ Invoke(NoHal, Frame("transfer", Data(n, s), 0),
                  transfer(Data(n, s)), 0, n)

SPIDriver_write_byte(in) ==
    \E b \in in.bytes :
        /\ Begin(Direct("write_byte", b), <<>>)
        /\ Invoke(NoHal, Frame("write_byte", <<b>>, 0), write_byte(b), 0, 0)

\* ------------------------------------- Comms for SPIDriverHAL (the adapter)

\* The closure of with_mut_sd cannot run: borrow_mut panics.
Panicked ==
    /\ pc' = "panic"
    /\ result' = Panic
    /\ eng' = NoEng
    /\ hal' = NoHal
    /\ borrowed' = FALSE

Via(via, op, arg) == [via |-> via, op |-> op, arg |-> arg]

InComms(op) == [op |-> op, off |-> 0]

\* Comms::set_cs: high means unselected.
Comms_set_cs ==
    \E high \in BOOLEAN :
        /\ Begin(Via("Comms", "set_cs", Bit(high)), <<>>)
        /\ IF with_mut_sd(borrowed)
           THEN IF high
                THEN Invoke(InComms("set_cs"), Frame("unselect", <<>>, 0),
                            unselect, 0, 0)
                ELSE Invoke(InComms("set_cs"), Frame("select", <<>>, 0),
                            select, 0, 0)
           ELSE Panicked /\ UNCHANGED frames

Comms_set_a ==
    \E high \in BOOLEAN :
        /\ Begin(Via("Comms", "set_a", Bit(high)), <<>>)
        /\ IF with_mut_sd(borrowed)
           THEN Invoke(InComms("set_a"), Frame("set_a", <<Bit(high)>>, 0),
                       set_a(high), 0, 0)
           ELSE Panicked /\ UNCHANGED frames

Comms_set_b ==
    \E high \in BOOLEAN :
        /\ Begin(Via("Comms", "set_b", Bit(high)), <<>>)
        /\ IF with_mut_sd(borrowed)
           THEN Invoke(InComms("set_b"), Frame("set_b", <<Bit(high)>>, 0),
                       set_b(high), 0, 0)
           ELSE Panicked /\ UNCHANGED frames

\* Comms::write up to the head of its loop: `let mut remain = data`.
Comms_write(via, in) ==
    \E n \in in.lens, s \in in.seeds :
        /\ Begin(Via(via, "write", n), Data(n, s))
        /\ IF with_mut_sd(borrowed)
           THEN /\ pc' = "comms"
                /\ hal' = InComms("write")
                /\ borrowed' = TRUE
                /\ UNCHANGED <<eng, result>>
           ELSE Panicked
        /\ UNCHANGED frames

\* Comms::transfer up to the head of its loop:
\* `let mut remain = &mut data[..]`.
Comms_transfer(via, in) ==
    \E n \in in.lens, s \in in.seeds :
        /\ Begin(Via(via, "transfer", n), Data(n, s))
        /\ IF with_mut_sd(borrowed)
           THEN /\ pc' = "comms"
                /\ hal' = InComms("transfer")
                /\ borrowed' = TRUE
                /\ UNCHANGED <<eng, result>>
           ELSE Panicked
        /\ UNCHANGED frames

\* ChunkLen cutting a full chunk one byte short.
ChunkLen_short(remain) == IF remain >= ChunkMax THEN ChunkMax - 1 ELSE remain

\* ChunkLen with the test `remain.len() > 65`.
ChunkLen_wide(remain) == IF remain > ChunkMax + 1 THEN ChunkMax ELSE remain

\* `if remain.len() > 64 { 64 } else { remain.len() }`
ChunkLen(remain) == IF remain > ChunkMax THEN ChunkMax ELSE remain

\* `remain.split_at(len)` and `remain.split_at_mut(len)`: where `this` lies
\* in the caller's buffer, remain starting at offset off.
split_at(off, len) == [base |-> off, len |-> len]

\* split_at_mut taken from the whole buffer instead of from remain.
split_at_mut_front(off, len) == [base |-> 0, len |-> len]

split_at_mut(off, len) == [base |-> off, len |-> len]

\* The bytes of slice sl.
Slice(sl) == SubSeq(buf, sl.base + 1, sl.base + sl.len)

\* One test of `while remain.len() > 0` and, when it holds, the call of
\* sd.0.write(this) on the next chunk; otherwise Ok(()).
Comms_write_loop ==
    /\ pc = "comms"
    /\ hal.op = "write"
    /\ LET remain == Len(buf) - hal.off IN
       IF remain > 0
       THEN LET len == ChunkLen(remain)
                this == split_at(hal.off, len)
            IN Invoke(hal, Frame("write", Slice(this), this.base),
                      write(Slice(this)), this.base, len)
       ELSE /\ pc' = "done"
            /\ result' = Ok(-1)
            /\ borrowed' = FALSE
            /\ UNCHANGED <<hal, eng, frames>>
    /\ UNCHANGED <<call, buf, orig, wire, nread, rxSeed, polls, ncalls>>

\* The same for sd.0.transfer(this); after the loop Ok(data).
Comms_transfer_loop ==
    /\ pc = "comms"
    /\ hal.op = "transfer"
    /\ LET remain == Len(buf) - hal.off IN
       IF remain > 0
       THEN LET len == ChunkLen(remain)
                this == split_at_mut(hal.off, len)
            IN Invoke(hal, Frame("transfer", Slice(this), this.base),
                      transfer(Slice(this)), this.base, len)
       ELSE /\ pc' = "done"
            /\ result' = Ok(-1)
            /\ borrowed' = FALSE
            /\ UNCHANGED <<hal, eng, frames>>
    /\ UNCHANGED <<call, buf, orig, wire, nread, rxSeed, polls, ncalls>>

\* A Comms method called while the closure of with_mut_sd is running a
\* Channel call (from the transport's own code, which is all that runs
\* then): borrow_mut finds the RefCell borrowed and panics.  Were the borrow
\* granted, the closure would run: here set_cs(high) on a channel that
\* answers Ok.
Reenter ==
    /\ pc = "engine"
    /\ hal.op # "none"
    /\ IF with_mut_sd(borrowed)
       THEN \E high \in BOOLEAN :
              LET body == IF high THEN unselect ELSE select IN
              /\ frames' = Append(frames,
                    Frame(IF high THEN "unselect" ELSE "select", <<>>, 0))
              /\ wire' = wire \o [i \in 1..Len(body.calls) |->
                                    Ev(body.calls[i].k, body.calls[i].b, "ok")]
              /\ UNCHANGED <<pc, result, eng, hal, borrowed>>
       ELSE Panicked /\ UNCHANGED <<wire, frames>>
    /\ UNCHANGED <<call, buf, orig, nread, rxSeed, polls, ncalls>>

\* ------------------------------------------------- the capability handles

\* spi::Write and spi::Transfer for SPI: self.sd.borrow(|sd| sd.write(data)),
\* NoOpMutex::borrow being f(&self.v).
SPI_write(in) == Comms_write("SPI", in)

SPI_transfer(in) == Comms_transfer("SPI", in)

\* OutputPin for CS, PinA and PinB: both methods are panic!("not yet").
NotYet(via, op) ==
    /\ Begin(Via(via, op, 0), <<>>)
    /\ pc' = "panic"
    /\ result' = Panic
    /\ UNCHANGED <<hal, eng, borrowed, frames>>

CS_set_low == NotYet("CS", "set_low")
CS_set_high == NotYet("CS", "set_high")
PinA_set_low == NotYet("PinA", "set_low")
PinA_set_high == NotYet("PinA", "set_high")
PinB_set_low == NotYet("PinB", "set_low")
PinB_set_high == NotYet("PinB", "set_high")

\* ---------------------------------------------------------------- callers

\* The caller takes an Ok and goes on to its next operation; like the
\* callers of this repository (`cmd_1(sd, 0xfd, 0b00010010)?;`) it gives up
\* at the first error.
Resume ==
    /\ pc = "done"
    /\ result.tag = "Ok"
    /\ ncalls < MaxCalls
    /\ pc' = "idle"
    /\ call' = NoCall
    /\ result' = NoResult
    /\ buf' = <<>>
    /\ orig' = <<>>
    /\ hal' = NoHal
    /\ UNCHANGED <<eng, wire, frames, borrowed, nread, rxSeed, polls, ncalls>>

\* ----------------------------------------------------------- specification

Operations(in) ==
    \/ SPIDriver_echo(in)
    \/ SPIDriver_select
    \/ SPIDriver_unselect
    \/ SPIDriver_set_a
    \/ SPIDriver_set_b
    \/ SPIDriver_disconnect
    \/ SPIDriver_write(in)
    \/ SPIDriver_transfer(in)
    \/ SPIDriver_write_byte(in)
    \/ Comms_set_cs
    \/ Comms_set_a
    \/ Comms_set_b
    \/ Comms_write("Comms", in)
    \/ Comms_transfer("Comms", in)
    \/ SPI_write(in)
    \/ SPI_transfer(in)
    \/ CS_set_low
    \/ CS_set_high
    \/ PinA_set_low
    \/ PinA_set_high
    \/ PinB_set_low
    \/ PinB_set_high

Running(in) ==
    \/ Comms_write_loop
    \/ Comms_transfer_loop
    \/ Channel_write(in)
    \/ Channel_flush(in)
    \/ Channel_read(in)

\* One operation on a fresh session, every input.
Next == Operations(Full) \/ Running(Full)

Spec == Init /\ [][Next]_vars

\* A session of up to MaxCalls operations.
NextSeq == Operations(Short) \/ Running(Short) \/ Reenter \/ Resume

\* A session whose device answers with the first byte stream.
InitSeq == Init /\ rxSeed = 61

SpecSeq == InitSeq /\ [][NextSeq]_vars

\* A session of one operation on a transport that may stop answering: few
\* arguments, the lengths around the frame and chunk sizes.
Live ==
    [frameLens |-> {0, 1, 2, FrameMax, FrameMax + 1},
     lens |-> {0, 1, ChunkMax, ChunkMax + 1, 2 * ChunkMax, MaxLen},
     seeds |-> {7}, bytes |-> {66}, causes |-> {"EIO"}, polls |-> MaxPolls]

\* nb::block! giving up on a transport that answers WouldBlock for ever,
\* the Channel call returning all the same.
Blocked_gives_up(p) == FALSE

\* nb::block! is `loop { match $e { Err(WouldBlock) => {}, ... } }`: while
\* the transport answers WouldBlock for ever (polls < 0) the Channel call
\* does not return and nothing else runs.
Blocked(p) == p < 0

\* From now on the transport answers WouldBlock to every poll.
Stall ==
    /\ pc = "engine"
    /\ ~Blocked(polls)
    /\ polls' = -1
    /\ UNCHANGED <<pc, call, buf, orig, hal, eng, wire, frames, result,
                   borrowed, nread, rxSeed, ncalls>>

NextLive ==
    \/ ~Blocked(polls) /\ Operations(Live)
    \/ ~Blocked(polls) /\ Running(Live)
    \/ Stall

\* The thread of the operation keeps running: a step of the chunk loop or a
\* Channel call that can be taken is taken.
SpecLive ==
    Init /\ [][NextLive]_vars /\ WF_vars(~Blocked(polls) /\ Running(Live))

\* ------------------------------------------------ vocabulary of the claims

\* No Channel call has reported a transport failure.
NoFailure == \A i \in 1..Len(wire) : wire[i].res = "ok"

\* The Channel calls made so far, as <<kind, byte>>.
Calls == [i \in 1..Len(wire) |-> <<wire[i].k, wire[i].b>>]

Finished == pc = "done"

IsDirect(op) == call.via = "SPIDriver" /\ call.op = op

IsAdapter(op) == call.via \in {"Comms", "SPI"} /\ call.op = op

\* The write events for the bytes of p, in order.
Writes(p) == [i \in 1..Len(p) |-> <<"write", p[i]>>]

\* --------------------------------------------------------------------- C1
\* C1: SPIDriver::write(p) with 1 <= len(p) <= 64 on a channel that does
\* not fail makes exactly the Channel calls write(0xC0 + len(p) - 1),
\* write(p[1]), ..., write(p[len]) and no other (no read), and returns Ok;
\* with len(p) = 0 it makes no Channel call and returns Ok.
C1_WriteFrame ==
    (Finished /\ IsDirect("write") /\ Len(orig) <= 64 /\ NoFailure) =>
        /\ result.tag = "Ok"
        /\ nread = 0
        /\ Calls = IF Len(orig) = 0
                   THEN <<>>
                   ELSE <<<<"write", 192 + Len(orig) - 1>>>> \o Writes(orig)

C1_Witness ==
    /\ Finished /\ IsDirect("write") /\ NoFailure
    /\ Len(orig) = 64
    /\ Len(wire) = 65
    /\ result.tag = "Ok"


\* --------------------------------------------------------------------- C2
\* C2: SPIDriver::transfer(p) with 0 <= len(p) <= 64 on a channel that does
\* not fail first writes 0x80 + len(p) - 1 and the bytes of p in order
\* (nothing when p is empty), then reads exactly len(p) bytes, and returns
\* Ok with the buffer as long as p, its i-th byte the i-th byte read.
C2_TransferFrame ==
    (Finished /\ IsDirect("transfer") /\ Len(orig) <= 64 /\ NoFailure) =>
        LET n == Len(orig) IN
        /\ result.tag = "Ok"
        /\ Len(buf) = n
        /\ nread = n
        /\ Len(wire) = IF n = 0 THEN 0 ELSE 1 + 2 * n
        /\ n > 0 => SubSeq(Calls, 1, 1 + n)
                       = <<<<"write", 128 + n - 1>>>> \o Writes(orig)
        /\ \A i \in 1..n :
              /\ wire[1 + n + i].k = "read"
              /\ buf[i] = wire[1 + n + i].b
              /\ buf[i] = RxByte(i)

C2_Witness ==
    /\ Finished /\ IsDirect("transfer") /\ NoFailure
    /\ Len(orig) = 64
    /\ nread = 64
    /\ buf # orig
    /\ result.tag = "Ok"

\* --------------------------------------------------------------------- C3
\* C3: SPIDriver::write(p) and SPIDriver::transfer(p) with len(p) > 64
\* return Error::Request with no Channel call made (nothing written,
\* nothing read) and the buffer unchanged; no operation returns
\* Error::Request in any other situation.
C3_RequestError ==
    /\ (Finished /\ (IsDirect("write") \/ IsDirect("transfer"))
          /\ Len(orig) > 64) =>
            /\ result = Error_Request
            /\ wire = <<>>
            /\ nread = 0
            /\ buf = orig
    /\ result.tag = "Request" =>
            /\ IsDirect("write") \/ IsDirect("transfer")
            /\ Len(orig) > 64

C3_Witness ==
    /\ Finished /\ IsDirect("transfer")
    /\ Len(orig) = 65
    /\ result.tag = "Request"

\* --------------------------------------------------------------------- C4
CeilDiv(n, d) == (n + d - 1) \div d

\* The write calls of data p sent in frames of at most 64 bytes with
\* control bytes base + len - 1.
RECURSIVE FramedWrites(_, _)
FramedWrites(p, base) ==
    IF Len(p) = 0 THEN <<>>
    ELSE LET len == IF Len(p) > 64 THEN 64 ELSE Len(p) IN
         <<<<"write", base + len - 1>>>>
            \o Writes(SubSeq(p, 1, len))
            \o FramedWrites(SubSeq(p, len + 1, Len(p)), base)

IsWriteCall(c) == c[1] = "write"

\* C4: Comms::write(data) and Comms::transfer(data) of n bytes on a channel
\* that does not fail make exactly ceil(n/64) SPIDriver calls, in order,
\* every one but the last with 64 bytes and the last with
\* n - 64*(ceil(n/64)-1), the payloads concatenated being data; these are
\* the frames on the wire; 130 bytes give the lengths 64, 64, 2.
C4_Chunking ==
    (Finished /\ (IsAdapter("write") \/ IsAdapter("transfer")) /\ NoFailure) =>
        LET n == Len(orig)
            cnt == CeilDiv(n, 64)
        IN /\ result.tag = "Ok"
           /\ Len(frames) = cnt
           /\ \A k \in 1..cnt :
                /\ frames[k].op = call.op
                /\ Len(frames[k].data) = IF k < cnt THEN 64 ELSE n - 64 * (cnt - 1)
                /\ frames[k].data = SubSeq(orig, 64 * (k - 1) + 1,
                                           64 * (k - 1) + Len(frames[k].data))
           /\ SelectSeq(Calls, IsWriteCall)
                = FramedWrites(orig, IF call.op = "write" THEN 192 ELSE 128)
           /\ n = 130 => [k \in 1..cnt |-> Len(frames[k].data)] = <<64, 64, 2>>

C4_Witness ==
    /\ Finished /\ IsAdapter("transfer") /\ NoFailure
    /\ Len(orig) = 130
    /\ Len(frames) = 3

\* --------------------------------------------------------------------- C5
IsFailed(e) == e.res # "ok"

IsOkWrite(e) == e.k = "write" /\ e.res = "ok"

\* What Error::tx / Error::rx make of the failed Channel call e.
ErrorOf(e) ==
    [tag |-> IF e.k = "read" THEN "Read" ELSE "Write", cause |-> e.res, val |-> -1]

\* C5: when the SPIDriver call for chunk k of a Comms::write or
\* Comms::transfer returns an error, the operation has returned that error,
\* the failed Channel call is the last one made, chunk k is the last chunk
\* a call was made for, and no byte beyond chunk k was written.
C5_StopAtFirstFailure ==
    (IsAdapter("write") \/ IsAdapter("transfer")) =>
        \A i \in 1..Len(wire) :
            IsFailed(wire[i]) =>
                LET k == Len(frames)
                    written == Len(SelectSeq(wire, IsOkWrite))
                IN /\ i = Len(wire)
                   /\ Finished
                   /\ result = ErrorOf(wire[i])
                   /\ hal.off = 64 * (k - 1)
                   /\ written >= 65 * (k - 1)
                   /\ written <= 65 * (k - 1) + 1 + Len(frames[k].data)

C5_Witness ==
    /\ Finished /\ IsAdapter("write")
    /\ Len(orig) = 130
    /\ Len(frames) = 2
    /\ IsFailed(wire[Len(wire)])
    /\ result.tag = "Write"

\* --------------------------------------------------------------------- C6
IsOkRead(e) == e.k = "read" /\ e.res = "ok"

\* C6: Comms::transfer(data) stores the bytes read for chunk k at the
\* positions chunk k was taken from: after success the buffer is the bytes
\* read, in order; after a failure in chunk k the positions of the chunks
\* before k hold the bytes read for them and the positions of the chunks
\* after k hold the caller's bytes.
C6_TransferPositions ==
    (Finished /\ IsAdapter("transfer")) =>
        LET reads == SelectSeq(wire, IsOkRead)
            k == Len(frames)
        IN /\ Len(buf) = Len(orig)
           /\ \A j \in 1..k : frames[j].base = 64 * (j - 1)
           /\ IF NoFailure
              THEN /\ Len(reads) = Len(buf)
                   /\ \A i \in 1..Len(buf) : buf[i] = reads[i].b
              ELSE /\ \A i \in 1..(64 * (k - 1)) : buf[i] = reads[i].b
                   /\ \A i \in (64 * k + 1)..Len(buf) : buf[i] = orig[i]

C6_Witness ==
    /\ Finished /\ IsAdapter("transfer")
    /\ Len(orig) = 130
    /\ Len(frames) = 2
    /\ ~NoFailure
    /\ nread > 64
    /\ buf[1] # orig[1]
    /\ buf[130] = orig[130]

\* --------------------------------------------------------------------- C7
\* The bytes a call of an SPIDriver method puts on the wire (the wire
\* protocol's table of commands).
Encode(f) ==
    CASE f.op = "echo" -> <<101>> \o f.data
      [] f.op = "select" -> <<115>>
      [] f.op = "unselect" -> <<117>>
      [] f.op = "set_a" -> <<97, IF f.data[1] = 1 THEN 49 ELSE 48>>
      [] f.op = "set_b" -> <<98, IF f.data[1] = 1 THEN 49 ELSE 48>>
      [] f.op = "disconnect" -> <<120>>
      [] f.op = "write_byte" -> <<192>> \o f.data
      [] f.op = "write" ->
            IF Len(f.data) \in 1..64 THEN <<192 + Len(f.data) - 1>> \o f.data
            ELSE <<>>
      [] f.op = "transfer" ->
            IF Len(f.data) \in 1..64 THEN <<128 + Len(f.data) - 1>> \o f.data
            ELSE <<>>

RECURSIVE Stream(_)
Stream(fs) == IF fs = <<>> THEN <<>> ELSE Encode(Head(fs)) \o Stream(Tail(fs))

\* The bytes written to the channel so far.
Sent ==
    LET ok == SelectSeq(wire, IsOkWrite) IN [i \in 1..Len(ok) |-> ok[i].b]

\* C7: over a session of operations issued one after another, directly or
\* through the handles, the bytes written to the channel are the frames of
\* the SPIDriver calls made, in the order the calls were made, each frame
\* whole before the next begins: only the last frame may be incomplete,
\* and only while its operation is running or has failed.
C7_FramesInOrder ==
    LET all == Stream(frames)
        before == Stream(SubSeq(frames, 1, Len(frames) - 1))
    IN /\ Len(Sent) <= Len(all)
       /\ Sent = SubSeq(all, 1, Len(Sent))
       /\ Len(Sent) >= Len(before)
       /\ (pc \in {"idle", "comms"} \/ (pc = "done" /\ result.tag = "Ok"))
             => Sent = all

C7_Witness ==
    /\ ncalls = 2
    /\ Finished /\ call.via = "SPI" /\ call.op = "write"
    /\ result.tag = "Ok"
    /\ Len(frames) = 3
    /\ frames[1].op = "echo"
    /\ Len(Sent) = 2 + 65 + 2

\* --------------------------------------------------------------------- C8
\* The Channel calls a method with body `body` makes when none fails.
CallsOf(body) == [i \in 1..Len(body.calls) |-> <<body.calls[i].k, body.calls[i].b>>]

Ended == pc \in {"done", "panic"}

\* C8: CS::set_low() makes the Channel calls of SPIDriver::select() (write
\* 's', flush) and CS::set_high() those of SPIDriver::unselect().
C8_ChipSelectHandle ==
    (Ended /\ call.via = "CS" /\ NoFailure) =>
        /\ result.tag = "Ok"
        /\ call.op = "set_low" => Calls = CallsOf(select)
        /\ call.op = "set_high" => Calls = CallsOf(unselect)

\* --------------------------------------------------------------------- C9
\* C9: PinA / PinB set_high() make the Channel calls of set_a(true) /
\* set_b(true) ('a','1' / 'b','1', flush), set_low() those of set_a(false) /
\* set_b(false), and return what the SPIDriver method returned.
C9_PinHandles ==
    (Ended /\ call.via \in {"PinA", "PinB"} /\ NoFailure) =>
        /\ result.tag = "Ok"
        /\ Calls = CallsOf(IF call.via = "PinA"
                           THEN set_a(call.op = "set_high")
                           ELSE set_b(call.op = "set_high"))

\* -------------------------------------------------------------------- C10
\* C10: once a Channel call of an SPIDriver method has reported a transport
\* failure, that call is the last Channel call made (none follows, the
\* failed one is not repeated) and the operation has returned
\* Error::Write(cause) for a write or flush and Error::Read(cause) for a
\* read, cause being the value the transport reported.
C10_TransportFailure ==
    \A i \in 1..Len(wire) :
        IsFailed(wire[i]) =>
            /\ i = Len(wire)
            /\ Finished
            /\ result.tag = (IF wire[i].k = "read" THEN "Read" ELSE "Write")
            /\ result.cause = wire[i].res
            /\ result.cause \in Causes

C10_Witness ==
    /\ Finished /\ IsDirect("echo")
    /\ Len(wire) = 3
    /\ wire[3].k = "flush"
    /\ wire[3].res = "ETIMEDOUT"
    /\ result = [tag |-> "Write", cause |-> "ETIMEDOUT", val |-> -1]

\* -------------------------------------------------------------------- C11
\* The borrow of the RefCell is held by the Comms method that is running.
Holder == pc \in {"comms", "engine"} /\ hal.op # "none"

\* C11: the borrow of the engine has at most one holder: it is held exactly
\* while one Comms method runs, and while that method is inside an SPIDriver
\* call no other SPIDriver call begins; an attempt to borrow again ends in
\* a panic with no Channel call made for it, and the only Channel calls
\* made are those of the holder's own method.
C11_ExclusiveBorrow ==
    /\ [](borrowed <=> Holder)
    /\ [][(pc = "engine" /\ borrowed) =>
            /\ frames' = frames
            /\ pc' = "panic" => (wire' = wire /\ result' = Panic)
            /\ wire' # wire =>
                  /\ Len(wire') = Len(wire) + 1
                  /\ SubSeq(wire', 1, Len(wire)) = wire
                  /\ wire'[Len(wire')].k = Cur.k]_vars

C11_Witness ==
    /\ pc = "panic"
    /\ call.via \in {"Comms", "SPI"}
    /\ call.op = "write"
    /\ Len(frames) = 2
    /\ Len(wire) > 65
    /\ ~borrowed

\* -------------------------------------------------------------------- C12
\* The session is one run of a method with body `body` that reads nothing:
\* its Channel calls in order up to the first that failed, and the result
\* the `?` gives.
RanAs(body) ==
    LET n == Len(wire) IN
    /\ body.early = NoResult
    /\ n \in 1..Len(body.calls)
    /\ \A i \in 1..n :
          /\ wire[i].k = body.calls[i].k
          /\ wire[i].b = body.calls[i].b
          /\ i < n => wire[i].res = "ok"
    /\ IF wire[n].res = "ok"
       THEN n = Len(body.calls) /\ result = Ok(-1)
       ELSE result = Error_tx(wire[n].res)
    /\ nread = 0

\* C12: write_byte(b) behaves as write([b]) and write([b]) as write_byte(b):
\* the same Channel calls (write 0xC0, write b, no flush, no read) up to the
\* first that fails, and the same result, also when the first or the second
\* write fails.
C12_WriteByte ==
    /\ (Finished /\ IsDirect("write_byte")) =>
            /\ RanAs(write(<<call.arg>>))
            /\ NoFailure => Calls = <<<<"write", 192>>, <<"write", call.arg>>>>
    /\ (Finished /\ IsDirect("write") /\ Len(orig) = 1) =>
            RanAs(write_byte(orig[1]))

C12_Witness ==
    /\ Finished /\ IsDirect("write_byte")
    /\ Len(wire) = 2
    /\ wire[2] = Ev("write", 255, "EIO")
    /\ result = Error_tx("EIO")

\* -------------------------------------------------------------------- C13
\* The adapter at the far end of the channel, as the claim takes it: it
\* decodes the bytes it receives, one command after another, and keeps the
\* state of chip-select and of the pins A and B.  `mode` is what the next
\* byte is (a command, the argument of echo / a / b, a payload byte) and
\* `left` the payload bytes still to come.
Adapter0 == [cs |-> FALSE, a |-> FALSE, b |-> FALSE, mode |-> "cmd", left |-> 0]

Receive(d, c) ==
    CASE d.mode = "data" ->
            IF d.left = 1 THEN [d EXCEPT !.mode = "cmd", !.left = 0]
            ELSE [d EXCEPT !.left = @ - 1]
      [] d.mode = "echo" -> [d EXCEPT !.mode = "cmd"]
      [] d.mode = "a" ->
            [d EXCEPT !.mode = "cmd",
                      !.a = IF c = 49 THEN TRUE ELSE IF c = 48 THEN FALSE ELSE @]
      [] d.mode = "b" ->
            [d EXCEPT !.mode = "cmd",
                      !.b = IF c = 49 THEN TRUE ELSE IF c = 48 THEN FALSE ELSE @]
      [] OTHER ->
            CASE c = 115 -> [d EXCEPT !.cs = TRUE]
              [] c = 117 -> [d EXCEPT !.cs = FALSE]
              [] c = 97 -> [d EXCEPT !.mode = "a"]
              [] c = 98 -> [d EXCEPT !.mode = "b"]
              [] c = 101 -> [d EXCEPT !.mode = "echo"]
              [] c \in 128..191 -> [d EXCEPT !.mode = "data", !.left = c - 127]
              [] c \in 192..255 -> [d EXCEPT !.mode = "data", !.left = c - 191]
              [] OTHER -> d

\* The adapter after the Channel calls w: it receives the bytes of the
\* writes that returned Ok.  Payload bytes only count down `left`, so a
\* payload is taken in one step: wholly, or as far as the bytes go.
Adapter(w) ==
    LET ok == SelectSeq(w, IsOkWrite)
        n == Len(ok)
        RECURSIVE Scan(_, _)
        Scan(d, i) ==
            IF i > n THEN d
            ELSE LET e == Receive(d, ok[i].b) IN
                 IF e.mode # "data" THEN Scan(e, i + 1)
                 ELSE IF i + e.left <= n
                 THEN Scan([e EXCEPT !.mode = "cmd", !.left = 0], i + e.left + 1)
                 ELSE [e EXCEPT !.left = @ - (n - i)]
    IN Scan(Adapter0, 1)

\* The SPIDriver method the session is in (the last one called).
LastOp == IF frames = <<>> THEN "none" ELSE frames[Len(frames)].op

\* C13: the adapter's chip-select changes only in a step of select /
\* unselect and its pins A / B only in a step of set_a / set_b; the step in
\* which a Channel call fails changes nothing at the adapter and ends the
\* operation, and once an operation has failed no further byte is sent: a
\* failed write or transfer, of one chunk or several, leaves chip-select
\* and both pins as they were.
C13_NoCompensation ==
    [][/\ wire' # wire =>
            LET old == Adapter(wire)
                new == Adapter(wire')
            IN /\ new.cs # old.cs => LastOp' \in {"select", "unselect"}
               /\ new.a # old.a => LastOp' = "set_a"
               /\ new.b # old.b => LastOp' = "set_b"
               /\ IsFailed(wire'[Len(wire')]) =>
                     /\ new = old
                     /\ pc' = "done"
                     /\ result' = ErrorOf(wire'[Len(wire')])
       /\ result.tag \in {"Write", "Read"} => wire' = wire]_vars

C13_Witness ==
    /\ ncalls = 2
    /\ Len(frames) = 3
    /\ frames[1].op = "select"
    /\ Finished /\ IsAdapter("transfer")
    /\ Len(orig) = 65
    /\ result.tag = "Read"
    /\ Adapter(wire).cs
    /\ Adapter(wire).mode = "cmd"

\* -------------------------------------------------------------------- C14
\* C14: echo(c) makes the Channel calls write 'e', write c, flush, read in
\* this order, as far as none fails: it reads only after the flush
\* returned Ok, reads one byte, and returns that byte as read, equal to c
\* or not.
C14_Echo ==
    IsDirect("echo") =>
        /\ Len(wire) <= 4
        /\ \A i \in 1..Len(wire) :
              <<wire[i].k, IF i = 4 THEN -1 ELSE wire[i].b>>
                 = <<<<"write", 101>>, <<"write", call.arg>>,
                     <<"flush", -1>>, <<"read", -1>>>>[i]
        /\ (Finished /\ NoFailure) =>
              /\ Len(wire) = 4
              /\ wire[3].res = "ok"
              /\ nread = 1
              /\ wire[4].b = RxByte(1)
              /\ result = Ok(wire[4].b)

C14_Witness ==
    /\ Finished /\ IsDirect("echo")
    /\ call.arg = 66
    /\ Len(wire) = 4
    /\ wire[4] = Ev("read", 185, "ok")
    /\ result = Ok(185)

\* -------------------------------------------------------------------- C15
\* The operations of the session were calls of these SPIDriver methods, in
\* this order, whether made directly or through Comms::set_cs.
Session(ops) ==
    /\ Len(frames) = Len(ops)
    /\ \A k \in 1..Len(ops) : frames[k].op = ops[k]
    /\ ncalls = Len(ops)

\* C15: select() makes the Channel calls write 's', flush and unselect()
\* the calls write 'u', flush, and neither any other (no payload byte, no
\* read); select() followed by unselect() gives write 's', flush,
\* write 'u', flush.
C15_SelectUnselect ==
    (Finished /\ NoFailure) =>
        /\ Session(<<"select">>) =>
              /\ Calls = <<<<"write", 115>>, <<"flush", -1>>>>
              /\ nread = 0 /\ result.tag = "Ok"
        /\ Session(<<"unselect">>) =>
              /\ Calls = <<<<"write", 117>>, <<"flush", -1>>>>
              /\ nread = 0 /\ result.tag = "Ok"
        /\ Session(<<"select", "unselect">>) =>
              /\ Calls = <<<<"write", 115>>, <<"flush", -1>>,
                           <<"write", 117>>, <<"flush", -1>>>>
              /\ nread = 0 /\ result.tag = "Ok"

C15_Witness ==
    /\ Finished /\ NoFailure
    /\ Session(<<"select", "unselect">>)
    /\ IsDirect("unselect")
    /\ Len(wire) = 4

\* -------------------------------------------------------------------- C16
\* C16: set_a(active) makes the Channel calls write 'a', write '1' or '0',
\* flush and set_b(active) the calls write 'b', write '1' or '0', flush,
\* '1' for active = true and '0' for active = false; two bytes are written,
\* none is read, and when a call fails the calls made are the first of
\* these.
C16_SetPins ==
    (call.via \in {"SPIDriver", "Comms"} /\ call.op \in {"set_a", "set_b"}) =>
        LET expect == <<<<"write", IF call.op = "set_a" THEN 97 ELSE 98>>,
                        <<"write", IF call.arg = 1 THEN 49 ELSE 48>>,
                        <<"flush", -1>>>>
        IN /\ Len(wire) <= 3
           /\ Calls = SubSeq(expect, 1, Len(wire))
           /\ nread = 0
           /\ (Finished /\ NoFailure) =>
                 /\ Len(wire) = 3
                 /\ Len(Sent) = 2
                 /\ result.tag = "Ok"

C16_Witness ==
    /\ Finished /\ NoFailure
    /\ IsDirect("set_b")
    /\ call.arg = 0
    /\ Sent = <<98, 48>>
    /\ wire[3].k = "flush"

\* -------------------------------------------------------------------- C17
\* C17: disconnect() makes one Channel call, write 'x': it does not flush
\* and does not read, and it returns what that write returned, Ok as soon
\* as the byte is written.
C17_Disconnect ==
    IsDirect("disconnect") =>
        /\ Len(wire) <= 1
        /\ nread = 0
        /\ Finished =>
              /\ Len(wire) = 1
              /\ wire[1].k = "write" /\ wire[1].b = 120
              /\ result = IF wire[1].res = "ok" THEN Ok(-1) ELSE Error_tx(wire[1].res)

C17_Witness ==
    /\ Finished /\ IsDirect("disconnect")
    /\ wire = <<Ev("write", 120, "ok")>>
    /\ result = Ok(-1)

\* -------------------------------------------------------------------- C18
\* C18: a write or transfer frame is on the wire only with a payload of 1
\* to 64 bytes.  SPIDriver::write / transfer are one call for the whole
\* buffer and put a control byte on the wire only when its length is in
\* 1..64, that length being the one the control byte states; the calls
\* Comms::write / transfer make all have 1 to 64 bytes (none for empty
\* data, n/64 of them for a multiple of 64), and Comms::write / transfer
\* never return Error::Request.
C18_FrameLengths ==
    /\ (IsDirect("write") \/ IsDirect("transfer")) =>
          /\ Len(frames) = 1
          /\ frames[1].data = orig
          /\ wire # <<>> =>
                /\ Len(orig) \in 1..64
                /\ wire[1].k = "write"
                /\ wire[1].b = (IF call.op = "write" THEN 192 ELSE 128)
                                  + Len(orig) - 1
          /\ Len(SelectSeq(wire, IsOkWrite)) <= 1 + Len(orig)
    /\ (IsAdapter("write") \/ IsAdapter("transfer")) =>
          /\ \A k \in 1..Len(frames) : Len(frames[k].data) \in 1..64
          /\ result.tag # "Request"
          /\ (Finished /\ NoFailure) =>
                /\ result.tag = "Ok"
                /\ Len(frames) = CeilDiv(Len(orig), 64)
                /\ Len(orig) % 64 = 0 => Len(frames) * 64 = Len(orig)

C18_Witness ==
    /\ Finished /\ NoFailure
    /\ IsAdapter("write")
    /\ Len(orig) = 128
    /\ Len(frames) = 2
    /\ Len(wire) = 130
    /\ result.tag = "Ok"

\* -------------------------------------------------------------------- C19
\* C19: no operation, of the engine or of a handle, returns
\* Error::Protocol, whatever the arguments, the bytes the device answers
\* and the failures of the transport: an operation that returned has
\* returned Ok, Error::Request, Error::Write or Error::Read.
C19_NoProtocolError ==
    /\ result # Error_Protocol
    /\ result.tag # "Protocol"
    /\ Finished => result.tag \in {"Ok", "Request", "Write", "Read"}

C19_Witness ==
    /\ Finished /\ IsAdapter("transfer")
    /\ Len(orig) = 2
    /\ rxSeed = 180
    /\ wire[Len(wire)] = Ev("read", -1, "ETIMEDOUT")
    /\ buf[1] = 185
    /\ result = Error_rx("ETIMEDOUT")

\* -------------------------------------------------------------------- C20
\* C20: every read of the channel comes after a flush that returned Ok,
\* with no write between that flush and the read: an operation that waits
\* for response bytes (echo, transfer) has flushed everything it wrote
\* before it reads.
C20_FlushBeforeRead ==
    \A i \in 1..Len(wire) :
        wire[i].k = "read" =>
            \E j \in 1..(i - 1) :
                /\ wire[j] = Ev("flush", -1, "ok")
                /\ \A m \in (j + 1)..(i - 1) : wire[m].k # "write"

\* -------------------------------------------------------------------- C21
\* The response bytes the call f of an SPIDriver method is owed.
Owed(f) ==
    CASE f.op = "echo" -> 1
      [] f.op = "transfer" -> IF Len(f.data) \in 1..64 THEN Len(f.data) ELSE 0
      [] OTHER -> 0

RECURSIVE OwedAll(_, _)
OwedAll(fs, k) == IF k = 0 THEN 0 ELSE Owed(fs[k]) + OwedAll(fs, k - 1)

\* The last SPIDriver call made has returned Ok.
LastReturnedOk ==
    pc \in {"idle", "comms"} \/ (pc = "done" /\ result.tag = "Ok")

\* C21: over a session of operations the bytes read from the channel are
\* one for every echo call that succeeded and len for every transfer frame
\* of len bytes that succeeded, plus what a last call that is running or
\* has failed has read so far, which is at most what it is owed; select,
\* unselect, set_a, set_b, disconnect, write and write_byte read nothing.
C21_ReadsMatchCalls ==
    LET n == Len(frames)
        reads == Len(SelectSeq(wire, IsOkRead))
    IN /\ nread = reads
       /\ IF n = 0 THEN nread = 0
          ELSE IF LastReturnedOk THEN nread = OwedAll(frames, n)
          ELSE /\ nread >= OwedAll(frames, n - 1)
               /\ nread <= OwedAll(frames, n)
       /\ (n > 0 /\ frames[n].op \notin {"echo", "transfer"}) =>
             nread = OwedAll(frames, n - 1)

C21_Witness ==
    /\ ncalls = 2
    /\ Len(frames) = 3
    /\ frames[1].op = "echo"
    /\ Finished /\ IsAdapter("transfer")
    /\ result.tag = "Read"
    /\ nread = 1 + 64

\* -------------------------------------------------------------------- C22
\* C22: when SPIDriver::transfer(p) fails in the read of response byte k
\* (counted from 0), the control byte and all len(p) payload bytes were
\* written, k bytes were read, the buffer holds them at its first k
\* positions and the caller's bytes at the others, and the result is
\* Error::Read(cause); when it fails in a write, nothing was read, the
\* buffer is as the caller passed it and the result is Error::Write(cause).
C22_TransferFailure ==
    (Finished /\ IsDirect("transfer") /\ ~NoFailure) =>
        LET n == Len(orig)
            f == wire[Len(wire)]
            k == nread
        IN /\ Len(buf) = n
           /\ IF f.k = "read"
              THEN /\ Len(wire) = 1 + n + k + 1
                   /\ k < n
                   /\ \A i \in 1..(1 + n) : IsOkWrite(wire[i])
                   /\ \A i \in 1..k :
                         /\ wire[1 + n + i] = Ev("read", buf[i], "ok")
                         /\ buf[i] = RxByte(i)
                   /\ \A i \in (k + 1)..n : buf[i] = orig[i]
                   /\ result = [tag |-> "Read", cause |-> f.res, val |-> -1]
              ELSE /\ f.k = "write"
                   /\ Len(wire) <= 1 + n
                   /\ nread = 0
                   /\ buf = orig
                   /\ result = [tag |-> "Write", cause |-> f.res, val |-> -1]

C22_Witness ==
    /\ Finished /\ IsDirect("transfer")
    /\ Len(orig) = 5
    /\ nread = 2
    /\ wire[Len(wire)] = Ev("read", -1, "EIO")
    /\ buf[2] = RxByte(2) /\ buf[2] # orig[2]
    /\ buf[3] = orig[3]
    /\ result.tag = "Read"

\* -------------------------------------------------------------------- C23
\* The control bytes SPIDriver::write and SPIDriver::transfer compute for a
\* buffer of n bytes.
WriteCtl(n) == write(Data(n, 0)).calls[1].b

TransferCtl(n) == transfer(Data(n, 0)).calls[1].b

\* C23: for a buffer of n bytes, 1 <= n <= 64, the control byte written is
\* 0xc0 - 1 + n for write and 0x80 - 1 + n for transfer, computed without
\* wrapping: it lies in 0xC0..0xFF for write and in 0x80..0xBF for
\* transfer, is none of 'e', 's', 'u', 'a', 'b', 'x', is the control byte
\* of no length of the other family and of no other length of its own.
C23_ControlBytes ==
    ((IsDirect("write") \/ IsDirect("transfer")) /\ Len(wire) = 1) =>
        LET n == Len(orig)
            c == wire[1].b
            isWrite == call.op = "write"
        IN /\ n \in 1..64
           /\ c = (IF isWrite THEN 192 ELSE 128) - 1 + n
           /\ c \in 0..255
           /\ IF isWrite THEN c \in 192..255 ELSE c \in 128..191
           /\ c \notin {101, 115, 117, 97, 98, 120}
           /\ \A m \in 1..64 :
                 /\ c # (IF isWrite THEN TransferCtl(m) ELSE WriteCtl(m))
                 /\ m # n => c # (IF isWrite THEN WriteCtl(m) ELSE TransferCtl(m))
                 /\ WriteCtl(m) \in 192..255
                 /\ TransferCtl(m) \in 128..191

C23_Witness ==
    /\ IsDirect("write")
    /\ Len(orig) = 64
    /\ wire = <<Ev("write", 255, "ok")>>

\* -------------------------------------------------------------------- C24
InOperation == pc \in {"comms", "engine"}

Stalled == Blocked(polls)

\* C24: an operation that has begun ends (returns or panics) unless the
\* transport answers WouldBlock for ever; an SPIDriver call on len bytes
\* makes at most 1 + 2 * len Channel calls (4 for the commands); each turn
\* of a chunk loop moves on by 1 to 64 bytes and there are at most
\* ceil(n/64) turns; and once the transport answers WouldBlock for ever the
\* operation never returns: nothing times out.
C24_Termination ==
    /\ InOperation ~> (Ended \/ Stalled)
    /\ [](Stalled => [](InOperation /\ result = NoResult))
    /\ [](/\ Len(frames) <= CeilDiv(Len(orig), 64) + 1
          /\ IsAdapter("write") \/ IsAdapter("transfer") =>
                /\ Len(frames) <= CeilDiv(Len(orig), 64)
                /\ Len(wire) <= 129 * Len(frames)
          /\ call.via = "SPIDriver" => Len(wire) <= 4 + 2 * Len(orig))
    /\ [][(hal'.op \in {"write", "transfer"} /\ hal.op = hal'.op
             /\ hal'.off # hal.off) =>
                /\ hal'.off - hal.off \in 1..64
                /\ hal'.off <= Len(orig)]_vars

C24_Witness ==
    /\ Stalled
    /\ pc = "engine"
    /\ IsAdapter("write")
    /\ Len(orig) = 130
    /\ Len(frames) = 3
    /\ Len(wire) = 131

====
